---- MODULE Spec2Model ----
(***************************************************************************)
(* Stream consumption and validated ingestion of order records.            *)
(*                                                                         *)
(* Two programs read the same broker stream, each with its own cursor:     *)
(*   "ingest"   SubAndInsertOrders.py  subscribe_and_insert_orders         *)
(*   "observe"  SubOrders.py           subscribe_to_orders                 *)
(* A producer (StreamOrders.py) appends raw rows to the stream.            *)
(*                                                                         *)
(* An entry's id is its index in the stream, so ids are ordered as the     *)
(* broker orders them.  Every variable that belongs to one program is a    *)
(* function over Procs.                                                    *)
(***************************************************************************)
EXTENDS Integers, Sequences, FiniteSets, TLC

\* ------------------------------------------------------------------ bounds

\* Longest stream explored (entries present at start plus entries appended).
MaxStream == 3
\* How many faults a session may meet: losses of the connection, order.save()
\* calls that raise, reads that raise an error other than a connectivity error.
MaxFaults == 2

\* The same two bounds for the runs in which both programs are started.
MaxBothStream == 1
MaxBothFaults == 1

\* --------------------------------------------------------------- constants

Procs == {"ingest", "observe"}

\* last_id: str = '$'
SPECIAL_LATEST == -1

\* redis_client = None
NoClient == 0

\* Tokens of a date text other than its numbers.
SLASH == -11
SPACE == -12
COLON == -13
JUNK == -14

\* ------------------------------------------------------- process_order

\* order_data.get(key, default)
Get(order_data, key, default) ==
    IF key \in DOMAIN order_data THEN order_data[key] ELSE default

IsLeap(y) == (y % 4 = 0 /\ y % 100 /= 0) \/ y % 400 = 0

DaysInMonth(m, y) ==
    IF m = 2 THEN (IF IsLeap(y) THEN 29 ELSE 28)
    ELSE IF m \in {4, 6, 9, 11} THEN 30 ELSE 31

\* datetime.strptime(text, '%m/%d/%Y %H:%M'): the parsed fields, or
\* [ok |-> FALSE] where strptime raises ValueError.  A text is its token
\* sequence, numbers as themselves.
strptime(text) ==
    IF /\ Len(text) = 9
       /\ text[2] = SLASH /\ text[4] = SLASH /\ text[6] = SPACE /\ text[8] = COLON
       /\ text[1] \in 1..12
       /\ text[5] \in 1..9999
       /\ text[3] \in 1..DaysInMonth(text[1], text[5])
       /\ text[7] \in 0..23
       /\ text[9] \in 0..59
    THEN [ok |-> TRUE, month |-> text[1], day |-> text[3], year |-> text[5],
          hour |-> text[7], minute |-> text[9]]
    ELSE [ok |-> FALSE, exc |-> "ValueError"]

\* invoice_dt.date(): the time of day is dropped.
DateOf(dt) == <<dt.year, dt.month, dt.day>>

\* Text of a decimal number as the number of hundredths it denotes; NaN for a
\* text that is no number.
NaN == -100000

ParseDecimal(text) ==
    CASE text = "2.50" -> 250
      [] text = "0" -> 0
      [] text = "-1.00" -> -100
      [] OTHER -> NaN

ParseInt(text) ==
    CASE text = "3" -> 3
      [] text = "1" -> 1
      [] OTHER -> NaN

\* Product(StockCode, Description, UnitPrice): [ok |-> FALSE] where the
\* schema raises ValidationError.
Product(StockCode, Description, UnitPrice) ==
    IF ParseDecimal(UnitPrice) /= NaN /\ ParseDecimal(UnitPrice) >= 0
    THEN [ok |-> TRUE, StockCode |-> StockCode, Description |-> Description,
          UnitPrice |-> ParseDecimal(UnitPrice)]
    ELSE [ok |-> FALSE, exc |-> "ValidationError"]

\* Order(InvoiceNo, Item, Quantity, InvoiceDate, CustomerID, Country)
Order(InvoiceNo, Item, Quantity, InvoiceDate, CustomerID, Country) ==
    IF ParseInt(Quantity) /= NaN
    THEN [ok |-> TRUE, InvoiceNo |-> InvoiceNo, Item |-> Item,
          Quantity |-> ParseInt(Quantity), InvoiceDate |-> InvoiceDate,
          CustomerID |-> CustomerID, Country |-> Country]
    ELSE [ok |-> FALSE, exc |-> "ValidationError"]

\* The value process_order returns for a rejected record.
None == [ok |-> FALSE]

\* The exception classes met here; all derive from Exception.
Exceptions == {"ValidationError", "ValueError", "TypeError"}

\* What a raise of `exc` inside the outer try block comes to: the handlers
\* `except ValidationError` and `except Exception` return None, anything
\* else leaves the function.
Handled(exc) == IF exc \in Exceptions THEN None ELSE [ok |-> FALSE, exc |-> exc]

\* The date used by process_order_DefaultDate: 1/1/1970 0:00.
Epoch == [ok |-> TRUE, month |-> 1, day |-> 1, year |-> 1970, hour |-> 0, minute |-> 0]

\* process_order as it would be if a date that does not parse were replaced
\* by a default instead of rejecting the record.
process_order_DefaultDate(order_data) ==
    LET item == Product(Get(order_data, "StockCode", ""),
                        Get(order_data, "Description", ""),
                        Get(order_data, "UnitPrice", "0"))
        invoice_dt == strptime(Get(order_data, "InvoiceDate", <<>>))
        made == Order(Get(order_data, "InvoiceNo", ""), item,
                      Get(order_data, "Quantity", "1"),
                      DateOf(IF invoice_dt.ok THEN invoice_dt ELSE Epoch),
                      Get(order_data, "CustomerID", ""), Get(order_data, "Country", ""))
    IN  IF ~item.ok THEN Handled(item.exc)
        ELSE IF ~made.ok THEN Handled(made.exc)
        ELSE made

process_order(order_data) ==
    LET item == Product(Get(order_data, "StockCode", ""),
                        Get(order_data, "Description", ""),
                        Get(order_data, "UnitPrice", "0"))
        invoice_dt == strptime(Get(order_data, "InvoiceDate", <<>>))
        made == Order(Get(order_data, "InvoiceNo", ""), item,
                      Get(order_data, "Quantity", "1"), DateOf(invoice_dt),
                      Get(order_data, "CustomerID", ""), Get(order_data, "Country", ""))
    IN  IF ~item.ok THEN Handled(item.exc)
        ELSE IF ~invoice_dt.ok
             THEN (IF invoice_dt.exc \in {"ValueError", "TypeError"} THEN None
                   ELSE Handled(invoice_dt.exc))
        ELSE IF ~made.ok THEN Handled(made.exc)
        ELSE made

\* order.key()
KeyOf(order) == order.InvoiceNo

\* ------------------------------------------------------------ raw records

\* The row of the concrete scenario: InvoiceDate "12/1/2010 8:26".
GoodRow ==
    [StockCode |-> "A1", Description |-> "Widget", UnitPrice |-> "2.50",
     InvoiceNo |-> "INV1", Quantity |-> "3",
     InvoiceDate |-> <<12, SLASH, 1, SLASH, 2010, SPACE, 8, COLON, 26>>,
     CustomerID |-> "C1", Country |-> "UK"]

\* InvoiceDate "not-a-date".
BadDateRow == [GoodRow EXCEPT !.InvoiceNo = "INV2", !.InvoiceDate = <<JUNK>>]

\* InvoiceDate "2/30/2010 8:26": well formed, but no such day.
NoSuchDayRow ==
    [GoodRow EXCEPT !.InvoiceNo = "INV3",
        !.InvoiceDate = <<2, SLASH, 30, SLASH, 2010, SPACE, 8, COLON, 26>>]

\* A row without the InvoiceDate, Quantity and UnitPrice columns.
NoDateRow ==
    [StockCode |-> "A1", Description |-> "Widget", InvoiceNo |-> "INV4",
     CustomerID |-> "C1", Country |-> "UK"]

\* A second valid row, under another invoice number and without Quantity.
OtherGoodRow ==
    [StockCode |-> "B2", Description |-> "", UnitPrice |-> "0",
     InvoiceNo |-> "INV5",
     InvoiceDate |-> <<2, SLASH, 29, SLASH, 2012, SPACE, 23, COLON, 59>>,
     CustomerID |-> "", Country |-> "FR"]

RawRecords == {GoodRow, OtherGoodRow, BadDateRow}

\* The raw field maps process_order is tried on: every combination of an
\* InvoiceDate, a UnitPrice and a Quantity column, each also absent.
DateTexts ==
    {<<>>, <<JUNK>>,
     <<12, SLASH, 1, SLASH, 2010, SPACE, 8, COLON, 26>>,
     <<2, SLASH, 29, SLASH, 2012, SPACE, 23, COLON, 59>>,
     <<2, SLASH, 30, SLASH, 2010, SPACE, 8, COLON, 26>>,
     <<2, SLASH, 29, SLASH, 1900, SPACE, 8, COLON, 26>>,
     <<13, SLASH, 1, SLASH, 2010, SPACE, 8, COLON, 26>>,
     <<12, SLASH, 1, SLASH, 2010, SPACE, 24, COLON, 0>>,
     <<12, SLASH, 1, SLASH, 2010>>,
     <<2010, SLASH, 12, SLASH, 1, SPACE, 8, COLON, 26>>}

PriceTexts == {"2.50", "0", "-1.00", "abc"}

QuantityTexts == {"3", "1", "x"}

NoColumn == [k \in {} |-> ""]

ValidateRecords ==
    {[StockCode |-> "A1", Description |-> "Widget", InvoiceNo |-> "INV1",
      CustomerID |-> "C1", Country |-> "UK"] @@ d @@ u @@ q :
        d \in {NoColumn} \cup {[InvoiceDate |-> x] : x \in DateTexts},
        u \in {NoColumn} \cup {[UnitPrice |-> x] : x \in PriceTexts},
        q \in {NoColumn} \cup {[Quantity |-> x] : x \in QuantityTexts}}

\* ------------------------------------------------------------------ state

VARIABLES
    stream,           \* the broker's stream: the raw records, in append order
    broker_up,        \* whether the broker can be reached
    env_ok,           \* whether .env gives REDIS_HOST and REDIS_PASSWORD
    faults,           \* faults met so far
    pc,               \* each program's position in its code
    last_id,          \* each program's cursor
    read_from,        \* the position the last xread call reads after
    resumed,          \* the next xread call is the first after a reconnect
    entry,            \* entry_id of the entry being handled, 0 for none
    redis_client,     \* each program's connection handle, NoClient for None
    open_handles,     \* the handles created on which close() was not called
    n_handles,        \* how many handles each program created
    connects,         \* calls of create_redis_connection so far
    order,            \* what process_order returned for the entry
    processed_count,  \* orders saved in this session
    store,            \* the saved orders, by key
    exit_status,      \* each process's exit status, -1 while it runs
    printed_total,    \* the final count printed at shutdown, -1 before
    interrupt_at,     \* where Ctrl+C found the program, "none" before
    trace,            \* what each program did to entries, in order
    first_read_at     \* stream length when the first read began, -1 before

envVars == <<stream, broker_up, env_ok>>
cursorVars == <<last_id, read_from, resumed, entry>>
connVars == <<redis_client, open_handles, n_handles, connects>>
storeVars == <<order, processed_count, store>>
exitVars == <<exit_status, printed_total, interrupt_at>>

vars ==
    <<envVars, faults, pc, cursorVars, connVars, storeVars, exitVars, trace,
      first_read_at>>

\* The streams a session may find at start: empty, or holding one entry.
InitStreams == {<<>>, <<GoodRow>>}

\* The state as the programs in `started` begin; the other is "off".
InitWith(started) ==
    /\ stream \in InitStreams
    /\ broker_up \in BOOLEAN
    /\ env_ok \in BOOLEAN
    /\ faults = 0
    /\ pc = [p \in Procs |-> IF p \in started THEN "connect" ELSE "off"]
    /\ last_id = [p \in Procs |-> SPECIAL_LATEST]
    /\ read_from = [p \in Procs |-> 0]
    /\ resumed = [p \in Procs |-> FALSE]
    /\ entry = [p \in Procs |-> 0]
    /\ redis_client = [p \in Procs |-> NoClient]
    /\ open_handles = [p \in Procs |-> {}]
    /\ n_handles = [p \in Procs |-> 0]
    /\ connects = [p \in Procs |-> 0]
    /\ order = None
    /\ processed_count = 0
    /\ store = {}
    /\ exit_status = [p \in Procs |-> -1]
    /\ printed_total = -1
    /\ interrupt_at = [p \in Procs |-> "none"]
    /\ trace = [p \in Procs |-> <<>>]
    /\ first_read_at = [p \in Procs |-> -1]

Init == InitWith({"ingest"})

Event(op, id) == [op |-> op, id |-> id]

\* ------------------------------------------------------------ environment

\* Some program is running: once none is, nothing observes the environment.
Running == \E p \in Procs : pc[p] \notin {"off", "done"}

\* redis_client.xadd(stream_name, processed_row), by the producer.
XAdd ==
    /\ Running
    /\ Len(stream) < MaxStream
    /\ \E r \in RawRecords : stream' = Append(stream, r)
    /\ UNCHANGED <<broker_up, env_ok, faults, pc, cursorVars, connVars,
                   storeVars, exitVars, trace, first_read_at>>

\* The connection to the broker is lost.
BrokerDown ==
    /\ Running
    /\ broker_up
    /\ faults < MaxFaults
    /\ broker_up' = FALSE
    /\ faults' = faults + 1
    /\ UNCHANGED <<stream, env_ok, pc, cursorVars, connVars, storeVars,
                   exitVars, trace, first_read_at>>

\* The broker can be reached again.
BrokerUp ==
    /\ Running
    /\ ~broker_up
    /\ broker_up' = TRUE
    /\ UNCHANGED <<stream, env_ok, faults, pc, cursorVars, connVars, storeVars,
                   exitVars, trace, first_read_at>>

\* --------------------------------------------------------- leaving

\* The exit status of a process that ends with `exc` propagating: 0 when the
\* function returns, sys.exit's argument, the interpreter's for Ctrl+C.
ExitStatusOf(exc) ==
    CASE exc = "none" -> 0
      [] exc = "SystemExit" -> 1
      [] exc = "KeyboardInterrupt" -> 130

\* The way out of the function with `exc` propagating (or "none" after
\* `break`): the finally block closes the client if there is one and prints
\* the total, and the process ends.
Leave(p, exc) ==
    /\ open_handles' = [open_handles EXCEPT ![p] = @ \ {redis_client[p]}]
    /\ printed_total' = IF p = "ingest" THEN processed_count ELSE printed_total
    /\ exit_status' = [exit_status EXCEPT ![p] = ExitStatusOf(exc)]
    /\ pc' = [pc EXCEPT ![p] = "done"]

\* ----------------------------------------------------- the read loop

\* Whether create_redis_connection returns a client: the required parameters
\* are there and the ping succeeds.  Otherwise it calls sys.exit(1).
CanConnect == env_ok /\ broker_up

\* create_redis_connection as it would be if a failure were retried after the
\* backoff instead of ending the process.
CreateRedisConnection_Retry(p, at) ==
    /\ pc[p] = at
    /\ connects' = [connects EXCEPT ![p] = @ + 1]
    /\ IF CanConnect
       THEN /\ n_handles' = [n_handles EXCEPT ![p] = @ + 1]
            /\ redis_client' = [redis_client EXCEPT ![p] = n_handles[p] + 1]
            /\ open_handles' = [open_handles EXCEPT ![p] = @ \cup {n_handles[p] + 1}]
            /\ pc' = [pc EXCEPT ![p] = "read"]
       ELSE /\ pc' = [pc EXCEPT ![p] = "backoff"]
            /\ UNCHANGED <<n_handles, redis_client, open_handles>>
    /\ UNCHANGED <<envVars, faults, last_id, read_from, entry, storeVars,
                   exitVars, trace, first_read_at>>

\* redis_client = create_redis_connection(), from position `at`; a client
\* goes on to the read, sys.exit(1) propagates through the finally block.
CreateRedisConnection(p, at) ==
    /\ pc[p] = at
    /\ connects' = [connects EXCEPT ![p] = @ + 1]
    /\ IF CanConnect
       THEN /\ n_handles' = [n_handles EXCEPT ![p] = @ + 1]
            /\ redis_client' = [redis_client EXCEPT ![p] = n_handles[p] + 1]
            /\ open_handles' = [open_handles EXCEPT ![p] = @ \cup {n_handles[p] + 1}]
            /\ pc' = [pc EXCEPT ![p] = "read"]
            /\ UNCHANGED <<exit_status, printed_total>>
       ELSE /\ Leave(p, "SystemExit")
            /\ UNCHANGED <<n_handles, redis_client>>
    /\ UNCHANGED <<envVars, faults, last_id, read_from, entry, storeVars,
                   interrupt_at, trace, first_read_at>>

\* The first connection, before the loop.
Connect(p) ==
    /\ CreateRedisConnection(p, "connect")
    /\ UNCHANGED resumed

\* The position a read with cursor `id` reads after: '$' stands for the last
\* entry the stream holds as the call begins.
ResolveId(id) == IF id = SPECIAL_LATEST THEN Len(stream) ELSE id

\* redis_client.xread({stream_name: last_id}, count=1, block=1000) is called.
XReadCall(p) ==
    /\ pc[p] = "read"
    /\ read_from' = [read_from EXCEPT ![p] = ResolveId(last_id[p])]
    /\ resumed' = [resumed EXCEPT ![p] = FALSE]
    /\ first_read_at' =
          [first_read_at EXCEPT ![p] = IF @ = -1 THEN Len(stream) ELSE @]
    /\ pc' = [pc EXCEPT ![p] = "blocked"]
    /\ UNCHANGED <<envVars, faults, last_id, entry, connVars, storeVars,
                   exitVars, trace>>

\* A read that returns the entry at position `from` again: at or after the
\* cursor instead of strictly after it.
Available_AtOrAfter(from) ==
    IF from >= 1 /\ Len(stream) >= from THEN {from}
    ELSE IF Len(stream) > from THEN {from + 1} ELSE {}

\* The entries a read after position `from` returns: with count=1, the first
\* entry after it, if there is one.
Available(from) == IF Len(stream) > from THEN {from + 1} ELSE {}

\* xread returns one entry; the loops over messages and entries reach it.
XReadReturn(p) ==
    /\ pc[p] = "blocked"
    /\ broker_up
    /\ \E id \in Available(read_from[p]) :
          entry' = [entry EXCEPT ![p] = id]
    /\ pc' = [pc EXCEPT ![p] = IF p = "ingest" THEN "process" ELSE "display"]
    /\ UNCHANGED <<envVars, faults, last_id, read_from, resumed, connVars,
                   storeVars, exitVars, trace, first_read_at>>

\* XReadTimeout as it would be if an empty read were taken for a lost
\* connection.
XReadTimeout_Reconnects(p) ==
    /\ pc[p] = "blocked"
    /\ broker_up
    /\ Available(read_from[p]) = {}
    /\ pc' = [pc EXCEPT ![p] = "backoff"]
    /\ UNCHANGED <<envVars, faults, cursorVars, connVars, storeVars, exitVars,
                   trace, first_read_at>>

\* xread returns nothing after the block time: `if not messages: continue`.
XReadTimeout(p) ==
    /\ pc[p] = "blocked"
    /\ broker_up
    /\ Available(read_from[p]) = {}
    /\ pc' = [pc EXCEPT ![p] = "read"]
    /\ UNCHANGED <<envVars, faults, cursorVars, connVars, storeVars, exitVars,
                   trace, first_read_at>>

\* xread raises redis.exceptions.ConnectionError: the handler sleeps.
XReadConnectionError(p) ==
    /\ pc[p] = "blocked"
    /\ ~broker_up
    /\ pc' = [pc EXCEPT ![p] = "backoff"]
    /\ UNCHANGED <<envVars, faults, cursorVars, connVars, storeVars, exitVars,
                   trace, first_read_at>>

\* xread raises another exception: `except Exception`, which sleeps.
XReadOtherError(p) ==
    /\ pc[p] = "blocked"
    /\ faults < MaxFaults
    /\ faults' = faults + 1
    /\ pc' = [pc EXCEPT ![p] = "pause"]
    /\ UNCHANGED <<envVars, cursorVars, connVars, storeVars, exitVars, trace,
                   first_read_at>>

\* A statement of the per-entry loop outside the inner handlers raises (the
\* prints before process_order, or before format_order in the observer): the
\* loop's `except Exception` prints the error and sleeps.
EntryError(p) ==
    /\ pc[p] \in {"process", "display"}
    /\ faults < MaxFaults
    /\ faults' = faults + 1
    /\ pc' = [pc EXCEPT ![p] = "pause"]
    /\ UNCHANGED <<envVars, cursorVars, connVars, storeVars, exitVars, trace,
                   first_read_at>>

\* Process as it would be if a rejected entry went back to the read without
\* reaching `last_id = entry_id`.
Process_SkipWithoutAdvance(p) ==
    /\ pc[p] = "process"
    /\ order' = process_order(stream[entry[p]])
    /\ trace' = [trace EXCEPT ![p] =
                    IF order'.ok THEN Append(@, Event("process", entry[p]))
                    ELSE @ \o <<Event("process", entry[p]), Event("reject", entry[p])>>]
    /\ pc' = [pc EXCEPT ![p] = IF order'.ok THEN "save" ELSE "read"]
    /\ UNCHANGED <<envVars, faults, cursorVars, connVars, processed_count,
                   store, exitVars, first_read_at>>

\* order = process_order(order_data), and `if order:`.
Process(p) ==
    /\ pc[p] = "process"
    /\ order' = process_order(stream[entry[p]])
    /\ trace' = [trace EXCEPT ![p] =
                    IF order'.ok THEN Append(@, Event("process", entry[p]))
                    ELSE @ \o <<Event("process", entry[p]), Event("reject", entry[p])>>]
    /\ pc' = [pc EXCEPT ![p] = IF order'.ok THEN "save" ELSE "advance"]
    /\ UNCHANGED <<envVars, faults, cursorVars, connVars, processed_count,
                   store, exitVars, first_read_at>>

\* Store.save: the order is written under its key, replacing what was there.
SaveInto(s, o) == {x \in s : x.key /= KeyOf(o)} \cup {[key |-> KeyOf(o), order |-> o]}

\* SaveOk without `processed_count += 1`.
SaveOk_NoCount(p) ==
    /\ pc[p] = "save"
    /\ store' = SaveInto(store, order)
    /\ trace' = [trace EXCEPT ![p] = Append(@, Event("saved", entry[p]))]
    /\ pc' = [pc EXCEPT ![p] = "advance"]
    /\ UNCHANGED <<envVars, faults, cursorVars, connVars, order,
                   processed_count, exitVars, first_read_at>>

\* order.save() returns: processed_count += 1.
SaveOk(p) ==
    /\ pc[p] = "save"
    /\ store' = SaveInto(store, order)
    /\ processed_count' = processed_count + 1
    /\ trace' = [trace EXCEPT ![p] = Append(@, Event("saved", entry[p]))]
    /\ pc' = [pc EXCEPT ![p] = "advance"]
    /\ UNCHANGED <<envVars, faults, cursorVars, connVars, order, exitVars,
                   first_read_at>>

\* SaveError as it would be if a connectivity error raised by order.save()
\* reached the handler that reconnects.
SaveError_Reconnects(p) ==
    /\ pc[p] = "save"
    /\ faults < MaxFaults
    /\ faults' = faults + 1
    /\ trace' = [trace EXCEPT ![p] = Append(@, Event("save_error", entry[p]))]
    /\ pc' = [pc EXCEPT ![p] = IF broker_up THEN "advance" ELSE "backoff"]
    /\ UNCHANGED <<envVars, cursorVars, connVars, storeVars, exitVars,
                   first_read_at>>

\* SaveError as it would be if a save that raised were counted as processed.
SaveError_Counts(p) ==
    /\ pc[p] = "save"
    /\ faults < MaxFaults
    /\ faults' = faults + 1
    /\ processed_count' = processed_count + 1
    /\ trace' = [trace EXCEPT ![p] = Append(@, Event("save_error", entry[p]))]
    /\ pc' = [pc EXCEPT ![p] = "advance"]
    /\ UNCHANGED <<envVars, cursorVars, connVars, order, store, exitVars,
                   first_read_at>>

\* SaveError as it would be if a failed save sent the loop back to the read
\* with the cursor where it was.
SaveError_NoAdvance(p) ==
    /\ pc[p] = "save"
    /\ faults < MaxFaults
    /\ faults' = faults + 1
    /\ trace' = [trace EXCEPT ![p] = Append(@, Event("save_error", entry[p]))]
    /\ pc' = [pc EXCEPT ![p] = "read"]
    /\ UNCHANGED <<envVars, cursorVars, connVars, storeVars, exitVars,
                   first_read_at>>

\* order.key() or order.save() raises: `except Exception` prints the error.
SaveError(p) ==
    /\ pc[p] = "save"
    /\ faults < MaxFaults
    /\ faults' = faults + 1
    /\ trace' = [trace EXCEPT ![p] = Append(@, Event("save_error", entry[p]))]
    /\ pc' = [pc EXCEPT ![p] = "advance"]
    /\ UNCHANGED <<envVars, cursorVars, connVars, storeVars, exitVars,
                   first_read_at>>

\* Display as it would be if the observer also saved what it shows.
Display_Saves(p) ==
    /\ pc[p] = "display"
    /\ store' = IF process_order(stream[entry[p]]).ok
                THEN SaveInto(store, process_order(stream[entry[p]]))
                ELSE store \cup {[key |-> entry[p], order |-> None]}
    /\ trace' = [trace EXCEPT ![p] = Append(@, Event("display", entry[p]))]
    /\ pc' = [pc EXCEPT ![p] = "advance"]
    /\ UNCHANGED <<envVars, faults, cursorVars, connVars, order, processed_count,
                   exitVars, first_read_at>>

\* The observer prints the entry: print(format_order(order_data)).
Display(p) ==
    /\ pc[p] = "display"
    /\ trace' = [trace EXCEPT ![p] = Append(@, Event("display", entry[p]))]
    /\ pc' = [pc EXCEPT ![p] = "advance"]
    /\ UNCHANGED <<envVars, faults, cursorVars, connVars, storeVars, exitVars,
                   first_read_at>>

\* Advance as it would be if the two programs shared one cursor.
Advance_Shared(p) ==
    /\ pc[p] = "advance"
    /\ last_id' = [q \in Procs |-> entry[p]]
    /\ trace' = [trace EXCEPT ![p] = Append(@, Event("advance", last_id'[p]))]
    /\ pc' = [pc EXCEPT ![p] = "read"]
    /\ UNCHANGED <<envVars, faults, read_from, resumed, entry, connVars,
                   storeVars, exitVars, first_read_at>>

\* last_id = entry_id; with count=1 the batch is over and the loop reads again.
Advance(p) ==
    /\ pc[p] = "advance"
    /\ last_id' = [last_id EXCEPT ![p] = entry[p]]
    /\ trace' = [trace EXCEPT ![p] = Append(@, Event("advance", last_id'[p]))]
    /\ pc' = [pc EXCEPT ![p] = "read"]
    /\ UNCHANGED <<envVars, faults, read_from, resumed, entry, connVars,
                   storeVars, exitVars, first_read_at>>

\* time.sleep(5) in the ConnectionError handler ends.
Backoff(p) ==
    /\ pc[p] = "backoff"
    /\ pc' = [pc EXCEPT ![p] = "reconnect"]
    /\ UNCHANGED <<envVars, faults, cursorVars, connVars, storeVars, exitVars,
                   trace, first_read_at>>

\* Reconnect as it would be if the session started over at '$' with the new
\* connection.
Reconnect_ResetCursor(p) ==
    /\ pc[p] = "reconnect"
    /\ connects' = [connects EXCEPT ![p] = @ + 1]
    /\ IF CanConnect
       THEN /\ n_handles' = [n_handles EXCEPT ![p] = @ + 1]
            /\ redis_client' = [redis_client EXCEPT ![p] = n_handles[p] + 1]
            /\ open_handles' = [open_handles EXCEPT ![p] = @ \cup {n_handles[p] + 1}]
            /\ last_id' = [last_id EXCEPT ![p] = SPECIAL_LATEST]
            /\ pc' = [pc EXCEPT ![p] = "read"]
            /\ UNCHANGED <<exit_status, printed_total>>
       ELSE /\ Leave(p, "SystemExit")
            /\ UNCHANGED <<n_handles, redis_client, last_id>>
    /\ resumed' = [resumed EXCEPT ![p] = CanConnect]
    /\ UNCHANGED <<envVars, faults, read_from, entry, storeVars, interrupt_at,
                   trace, first_read_at>>

\* redis_client = create_redis_connection() in the ConnectionError handler.
Reconnect(p) ==
    /\ CreateRedisConnection(p, "reconnect")
    /\ resumed' = [resumed EXCEPT ![p] = CanConnect]

\* time.sleep(1) in the `except Exception` handler ends.
Pause(p) ==
    /\ pc[p] = "pause"
    /\ pc' = [pc EXCEPT ![p] = "read"]
    /\ UNCHANGED <<envVars, faults, cursorVars, connVars, storeVars, exitVars,
                   trace, first_read_at>>

\* The positions inside the inner try block, where `except KeyboardInterrupt`
\* catches Ctrl+C and breaks out of the loop.
InTry == {"read", "blocked", "process", "display", "save", "advance"}

\* What propagates out of the function when Ctrl+C arrives at position `at`:
\* nothing inside the inner try; in an except handler and in the first
\* create_redis_connection no clause catches it (KeyboardInterrupt is no
\* Exception).
InterruptOutcome(at) == IF at \in InTry THEN "none" ELSE "KeyboardInterrupt"

\* Ctrl+C.
Interrupt(p) ==
    /\ pc[p] \notin {"off", "done"}
    /\ interrupt_at' = [interrupt_at EXCEPT ![p] = pc[p]]
    /\ Leave(p, InterruptOutcome(pc[p]))
    /\ UNCHANGED <<envVars, faults, cursorVars, redis_client, n_handles,
                   connects, storeVars, trace, first_read_at>>

\* -------------------------------------------------------- specifications

Environment == XAdd \/ BrokerDown \/ BrokerUp

\* subscribe_and_insert_orders and its environment.
IngestNext ==
    \/ Connect("ingest")
    \/ XReadCall("ingest")
    \/ XReadReturn("ingest")
    \/ XReadTimeout("ingest")
    \/ XReadConnectionError("ingest")
    \/ XReadOtherError("ingest")
    \/ EntryError("ingest")
    \/ Process("ingest")
    \/ SaveOk("ingest")
    \/ SaveError("ingest")
    \/ Advance("ingest")
    \/ Backoff("ingest")
    \/ Reconnect("ingest")
    \/ Pause("ingest")
    \/ Interrupt("ingest")

Next == IngestNext \/ Environment

Spec == Init /\ [][Next]_vars

\* subscribe_to_orders and its environment.
ObserveNext ==
    \/ Connect("observe")
    \/ XReadCall("observe")
    \/ XReadReturn("observe")
    \/ XReadTimeout("observe")
    \/ XReadConnectionError("observe")
    \/ XReadOtherError("observe")
    \/ EntryError("observe")
    \/ Display("observe")
    \/ Advance("observe")
    \/ Backoff("observe")
    \/ Reconnect("observe")
    \/ Pause("observe")
    \/ Interrupt("observe")

ObserveSpec == InitWith({"observe"}) /\ [][ObserveNext \/ Environment]_vars

\* The runs explored with both programs started: shorter streams of fewer
\* kinds of rows, and fewer faults, than with one program.
\* process_order on its own: the ingestion loop has connected, began its
\* first read on an empty stream and was handed the one entry appended since;
\* it validates the entry, saves it or not, and advances.
ValidateInit ==
    /\ \E raw \in ValidateRecords : stream = <<raw>>
    /\ broker_up = TRUE
    /\ env_ok = TRUE
    /\ faults = 0
    /\ pc = [p \in Procs |-> IF p = "ingest" THEN "process" ELSE "off"]
    /\ last_id = [p \in Procs |-> SPECIAL_LATEST]
    /\ read_from = [p \in Procs |-> 0]
    /\ resumed = [p \in Procs |-> FALSE]
    /\ entry = [p \in Procs |-> IF p = "ingest" THEN 1 ELSE 0]
    /\ redis_client = [p \in Procs |-> IF p = "ingest" THEN 1 ELSE NoClient]
    /\ open_handles = [p \in Procs |-> IF p = "ingest" THEN {1} ELSE {}]
    /\ n_handles = [p \in Procs |-> IF p = "ingest" THEN 1 ELSE 0]
    /\ connects = [p \in Procs |-> IF p = "ingest" THEN 1 ELSE 0]
    /\ order = None
    /\ processed_count = 0
    /\ store = {}
    /\ exit_status = [p \in Procs |-> -1]
    /\ printed_total = -1
    /\ interrupt_at = [p \in Procs |-> "none"]
    /\ trace = [p \in Procs |-> <<>>]
    /\ first_read_at = [p \in Procs |-> IF p = "ingest" THEN 0 ELSE -1]

ValidateNext ==
    \/ Process("ingest")
    \/ SaveOk("ingest")
    \/ SaveError("ingest")
    \/ Advance("ingest")

ValidateSpec == ValidateInit /\ [][ValidateNext]_vars

BothBound ==
    /\ Len(stream) <= MaxBothStream
    /\ faults <= MaxBothFaults
    /\ \A i \in DOMAIN stream : stream[i] \in {GoodRow, BadDateRow}

\* Both programs over the same stream, their steps interleaved.
BothNext ==
    \/ Connect("ingest") /\ BothBound'
    \/ XReadCall("ingest") /\ BothBound'
    \/ XReadReturn("ingest") /\ BothBound'
    \/ XReadTimeout("ingest") /\ BothBound'
    \/ XReadConnectionError("ingest") /\ BothBound'
    \/ XReadOtherError("ingest") /\ BothBound'
    \/ EntryError("ingest") /\ BothBound'
    \/ Process("ingest") /\ BothBound'
    \/ SaveOk("ingest") /\ BothBound'
    \/ SaveError("ingest") /\ BothBound'
    \/ Advance("ingest") /\ BothBound'
    \/ Backoff("ingest") /\ BothBound'
    \/ Reconnect("ingest") /\ BothBound'
    \/ Pause("ingest") /\ BothBound'
    \/ Interrupt("ingest") /\ BothBound'
    \/ Connect("observe") /\ BothBound'
    \/ XReadCall("observe") /\ BothBound'
    \/ XReadReturn("observe") /\ BothBound'
    \/ XReadTimeout("observe") /\ BothBound'
    \/ XReadConnectionError("observe") /\ BothBound'
    \/ XReadOtherError("observe") /\ BothBound'
    \/ EntryError("observe") /\ BothBound'
    \/ Display("observe") /\ BothBound'
    \/ Advance("observe") /\ BothBound'
    \/ Backoff("observe") /\ BothBound'
    \/ Reconnect("observe") /\ BothBound'
    \/ Pause("observe") /\ BothBound'
    \/ Interrupt("observe") /\ BothBound'
    \/ XAdd /\ BothBound'
    \/ BrokerDown /\ BothBound'
    \/ BrokerUp /\ BothBound'

BothSpec == InitWith(Procs) /\ [][BothNext]_vars

\* ------------------------------------------------------------- properties

\* What the ingestion loop did to entries, in order.
T == trace["ingest"]

\* The positions of T that hold an event `op`.
At(op) == {k \in DOMAIN T : T[k].op = op}

\* The entries the ingestion loop did `op` to.
Ids(op) == {T[k].id : k \in At(op)}

\* The cursor values the ingestion loop assigned, in order.
Advances == SelectSeq(T, LAMBDA e : e.op = "advance")

\* C1: in subscribe_and_insert_orders the cursor is set to an entry's position
\* only after that entry was rejected by validation or successfully saved: an
\* entry whose order.save() raised leaves last_id at its previous value.
C1_CursorSetOnlyAfterRejectOrSave ==
    \A k \in At("advance") :
        \E j \in 1..(k - 1) : T[j].id = T[k].id /\ T[j].op \in {"reject", "saved"}

\* C2: once the first connection has succeeded, the ingestion loop ends only
\* by an operator interrupt; broker unavailability, failed reconnects
\* included, never ends it.
C2_OnlyInterruptTerminates ==
    (pc["ingest"] = "done" /\ n_handles["ingest"] >= 1)
        => interrupt_at["ingest"] /= "none"

\* C3: no record is skipped.  While a read is in flight, every entry appended
\* after the first read began and positioned at or before the position this
\* read reads after has been passed to process_order: the broker returns only
\* entries after that position, so any other such entry is never delivered.
C3_NoEntrySkipped ==
    pc["ingest"] = "blocked" =>
        \A i \in 1..Len(stream) :
            (first_read_at["ingest"] < i /\ i <= read_from["ingest"])
                => i \in Ids("process")

\* C4: reconnect safety.  The first read after a successful reconnect reads
\* after the same position as the read that raised the connectivity error, so
\* no entry appended in between falls into a gap.
C4_ReconnectResumesSamePosition ==
    [][(resumed["ingest"] /\ pc["ingest"] = "read" /\ pc'["ingest"] = "blocked")
          => read_from'["ingest"] = read_from["ingest"]]_vars

\* C5: cursor monotonicity.  The values assigned to last_id within a session
\* strictly increase, and last_id is the last of them (or still '$').
C5_CursorMonotone ==
    /\ \A i, j \in DOMAIN Advances : i < j => Advances[i].id < Advances[j].id
    /\ last_id["ingest"] =
          IF Advances = <<>> THEN SPECIAL_LATEST ELSE Advances[Len(Advances)].id

C5_Witness ==
    /\ Len(Advances) >= 2
    /\ n_handles["ingest"] >= 2
    /\ pc["ingest"] = "blocked"

\* C6: an entry that process_order rejects is never saved, the cursor is
\* advanced to its position as the next thing the loop does, and the loop
\* then goes on reading: the next entry it handles is a later one, so a
\* malformed record does not block the stream.
C6_RejectedNotSavedCursorAdvances ==
    \A k \in At("reject") :
        /\ T[k].id \notin Ids("saved") \cup Ids("save_error")
        /\ k = Len(T) =>
              /\ pc["ingest"] \in {"advance", "done"}
              /\ entry["ingest"] = T[k].id
        /\ k < Len(T) => T[k + 1] = Event("advance", T[k].id)
        /\ k + 1 = Len(T) =>
              /\ last_id["ingest"] = T[k].id
              /\ pc["ingest"] \in {"process", "save", "advance"}
                    => entry["ingest"] > T[k].id

C6_Witness ==
    \E k \in At("reject") :
        /\ \E j \in At("process") : j > k /\ T[j].id > T[k].id
        /\ store = {}

\* The entries delivered to the ingestion loop.
Delivered == Ids("process")

\* The delivered entries process_order accepts, and those it rejects.
ValidDelivered == {i \in Delivered : process_order(stream[i]).ok}
MalformedDelivered == Delivered \ ValidDelivered

Max(S) == CHOOSE x \in S : \A y \in S : y <= x

\* C7: fault isolation.  When N valid entries and one malformed entry have
\* been delivered, in any order, and handled, and no save failed, then N
\* records have been saved (processed_count = N), one entry was rejected and
\* the cursor is at the position of the last of the N + 1 entries.
C7_FaultIsolation ==
    (/\ pc["ingest"] = "read"
     /\ At("save_error") = {}
     /\ Cardinality(MalformedDelivered) = 1)
        => /\ processed_count = Cardinality(ValidDelivered)
           /\ Cardinality(At("saved")) = Cardinality(ValidDelivered)
           /\ Cardinality(At("reject")) = 1
           /\ last_id["ingest"] = Max(Delivered)

C7_Witness ==
    /\ pc["ingest"] = "read"
    /\ At("save_error") = {}
    /\ Cardinality(MalformedDelivered) = 1
    /\ Cardinality(ValidDelivered) = 2
    /\ ~process_order(stream[2]).ok

\* The positions of the ingestion loop the claim about interrupts names:
\* blocked in the read, processing an entry, sleeping in the reconnect
\* backoff, re-establishing the connection, sleeping after a generic error.
LoopStates ==
    {"read", "blocked", "process", "save", "advance", "backoff", "reconnect",
     "pause"}

\* C8: an operator interrupt arriving in any state of the ingestion loop
\* ends the process with the broker connection closed, the final processed
\* count printed and exit status 0.
C8_InterruptExitsCleanly ==
    interrupt_at["ingest"] \in LoopStates =>
        /\ pc["ingest"] = "done"
        /\ redis_client["ingest"] \notin open_handles["ingest"]
        /\ printed_total = processed_count
        /\ exit_status["ingest"] = 0

\* C9: the old handle is closed on every reconnect: at most one handle the
\* session created is open at any time, and none once the process has ended.
C9_AtMostOneOpenHandle ==
    /\ Cardinality(open_handles["ingest"]) <= 1
    /\ pc["ingest"] = "done" => open_handles["ingest"] = {}

\* C10: when the first connection fails the process is fatal: it has ended
\* with a non-zero status, after one connection attempt, without having
\* issued a read, handled an entry or called the store.
C10_InitialConnectFailureIsFatal ==
    (connects["ingest"] >= 1 /\ n_handles["ingest"] = 0) =>
        /\ pc["ingest"] = "done"
        /\ exit_status["ingest"] \notin {-1, 0}
        /\ connects["ingest"] = 1
        /\ first_read_at["ingest"] = -1
        /\ T = <<>>
        /\ store = {}
        /\ processed_count = 0

C10_Witness ==
    /\ connects["ingest"] = 1
    /\ n_handles["ingest"] = 0
    /\ exit_status["ingest"] = 1
    /\ ~env_ok
    /\ broker_up

\* The ingestion loop is handling a connectivity error: the read raises it,
\* the handler sleeps, the handler reconnects.
Reconnecting ==
    \/ pc["ingest"] = "blocked" /\ pc'["ingest"] = "backoff"
    \/ pc["ingest"] \in {"backoff", "reconnect"}

\* C11: the reconnect changes only the connection handle.  From the
\* connectivity error to the end of the reconnect no step changes last_id,
\* processed_count or the store, a successful reconnect binds a new handle,
\* and the read that follows is issued with that cursor.
C11_ReconnectChangesOnlyHandle ==
    [][/\ Reconnecting =>
            /\ last_id'["ingest"] = last_id["ingest"]
            /\ processed_count' = processed_count
            /\ store' = store
       /\ (pc["ingest"] = "reconnect" /\ pc'["ingest"] = "read") =>
            /\ redis_client'["ingest"] /= redis_client["ingest"]
            /\ resumed'["ingest"]
       /\ (resumed["ingest"] /\ pc["ingest"] = "read" /\ pc'["ingest"] = "blocked") =>
            read_from'["ingest"] =
                (IF last_id["ingest"] = SPECIAL_LATEST THEN Len(stream)
                 ELSE last_id["ingest"])]_vars

C11_Witness ==
    /\ resumed["ingest"]
    /\ pc["ingest"] = "read"
    /\ last_id["ingest"] >= 1
    /\ processed_count >= 1
    /\ n_handles["ingest"] = 2

\* C12: an unexpected error raised while an entry is processed is isolated:
\* the entry is skipped and the cursor advances to its position.  Whenever
\* the loop is back at the read, the cursor is at the last entry delivered.
C12_EntryErrorAdvancesCursor ==
    (pc["ingest"] = "read" /\ entry["ingest"] /= 0)
        => last_id["ingest"] = entry["ingest"]

\* What belongs to one program: its position, cursor, handles, exit and history.
LocalState(p) ==
    <<pc[p], last_id[p], read_from[p], resumed[p], entry[p], redis_client[p],
      open_handles[p], n_handles[p], connects[p], exit_status[p],
      interrupt_at[p], trace[p], first_read_at[p]>>

\* The state of the ingestion loop, and of the observer.
IngestState == <<LocalState("ingest"), order, processed_count, store, printed_total>>
ObserveState == LocalState("observe")

TO == trace["observe"]

\* C14: the observer never writes to the store or to the stream.  Its steps
\* leave the stream, the store and the count of saved orders as they were; its
\* cursor changes only to the position of the entry it has just displayed; its
\* connection handle changes only where create_redis_connection is called.
C14_ObserverWritesNothing ==
    [][/\ ObserveState' /= ObserveState =>
            /\ stream' = stream
            /\ store' = store
            /\ processed_count' = processed_count
            /\ order' = order
       /\ last_id'["observe"] /= last_id["observe"] =>
            /\ pc["observe"] = "advance"
            /\ Len(TO) >= 1
            /\ TO[Len(TO)] = Event("display", entry["observe"])
            /\ last_id'["observe"] = entry["observe"]
       /\ redis_client'["observe"] /= redis_client["observe"] =>
            pc["observe"] \in {"connect", "reconnect"}]_vars

C14_Witness ==
    /\ Cardinality({k \in DOMAIN TO : TO[k].op = "display"}) >= 2
    /\ last_id["observe"] = 2
    /\ n_handles["observe"] = 2
    /\ Len(stream) = 3
    /\ store = {}

\* The record handed to process_order in the runs of ValidateSpec.
Raw == stream[1]

\* Whether the record's InvoiceDate is there and parses as '%m/%d/%Y %H:%M'.
DateParses(raw) ==
    /\ "InvoiceDate" \in DOMAIN raw
    /\ raw.InvoiceDate \in Seq(Int)
    /\ strptime(raw.InvoiceDate).ok

\* C15: process_order is total and rejects bad dates.  Once it has returned,
\* its result is an Order or None, never an exception that left the function;
\* an Order carries the date parsed from the record; and for a record whose
\* InvoiceDate is absent or does not parse the result is None and the session
\* makes no save call for it, neither one that succeeds nor one that fails.
C15_ProcessOrderTotalRejectsBadDates ==
    pc["ingest"] /= "process" =>
        /\ order = None \/ order.ok
        /\ order.ok => /\ DateParses(Raw)
                       /\ order.InvoiceDate = DateOf(strptime(Raw.InvoiceDate))
        /\ ~DateParses(Raw) =>
              /\ order = None
              /\ store = {}
              /\ processed_count = 0
              /\ \A k \in DOMAIN T : T[k].op \notin {"saved", "save_error"}
              /\ At("reject") /= {}

C15_Witness ==
    /\ "InvoiceDate" \notin DOMAIN Raw
    /\ "UnitPrice" \in DOMAIN Raw /\ Raw.UnitPrice = "2.50"
    /\ order = None
    /\ last_id["ingest"] = 1
    /\ pc["ingest"] = "read"
    /\ store = {}

\* The step in which a read of the ingestion loop times out: the broker is up,
\* nothing lies after the position read from, and the read ends without an
\* interrupt and without raising.
TimesOut ==
    /\ pc["ingest"] = "blocked"
    /\ broker_up
    /\ Available(read_from["ingest"]) = {}
    /\ pc'["ingest"] /= "blocked"
    /\ interrupt_at' = interrupt_at
    /\ faults' = faults

\* C16: a read that times out with no entries is not an error.  It leaves
\* the cursor, the count, the store and the connection handle as they were
\* and goes back to the read, not to the backoff before a reconnect; the next
\* read is issued with that same cursor.
C16_TimeoutIsNotAnError ==
    [][/\ TimesOut =>
            /\ pc'["ingest"] = "read"
            /\ last_id' = last_id
            /\ processed_count' = processed_count
            /\ store' = store
            /\ redis_client' = redis_client
            /\ open_handles' = open_handles
            /\ connects' = connects
            /\ trace' = trace
       /\ (pc["ingest"] = "read" /\ pc'["ingest"] = "blocked") =>
            /\ last_id' = last_id
            /\ read_from'["ingest"] = ResolveId(last_id["ingest"])]_vars

\* The first read has begun and ended, and nothing was delivered or raised:
\* it timed out.
C16_Witness ==
    /\ pc["ingest"] = "read"
    /\ first_read_at["ingest"] >= 0
    /\ T = <<>>
    /\ entry["ingest"] = 0
    /\ faults = 0
    /\ last_id["ingest"] = SPECIAL_LATEST
    /\ redis_client["ingest"] = 1
    /\ processed_count = 0

\* No two events of T at the positions in S are about the same entry.
OncePerEntry(S) == \A j, k \in S : T[j].id = T[k].id => j = k

\* C17: within one session no entry is handled twice.  Each entry position is
\* passed to process_order at most once and order.save() is called for it at
\* most once, whatever timeouts, storage errors, connectivity errors and
\* reconnects the session met.
C17_NoEntryHandledTwice ==
    /\ OncePerEntry(At("process"))
    /\ OncePerEntry(At("saved") \cup At("save_error"))
    /\ OncePerEntry(At("reject"))

C17_Witness ==
    /\ Cardinality(Ids("process")) >= 2
    /\ At("save_error") /= {}
    /\ At("saved") /= {}
    /\ n_handles["ingest"] = 2
    /\ pc["ingest"] = "blocked"
    /\ Available(read_from["ingest"]) = {}

\* Whether the last thing the ingestion loop did was a save that returned:
\* the count is raised and `last_id = entry_id` is still to come.
SavedNotYetAdvanced == Len(T) >= 1 /\ T[Len(T)].op = "saved"

StepFrom(at) ==
    /\ pc["ingest"] = at
    /\ pc'["ingest"] /= at
    /\ interrupt_at' = interrupt_at

\* C19: the connection handle is replaced only after a connectivity error of
\* the read.  The handle changes only in create_redis_connection; the backoff
\* before a reconnect is entered only from a read, with the broker out of
\* reach; whatever order.save() does, raising with the broker out of reach
\* included, the loop goes on to `last_id = entry_id` with the handle it had;
\* and a read that raises another error keeps handle, cursor and count and
\* goes back to the read after the pause.
C19_HandleReplacedOnlyOnReadConnectionError ==
    [][/\ redis_client'["ingest"] /= redis_client["ingest"] =>
            pc["ingest"] \in {"connect", "reconnect"}
       /\ (pc'["ingest"] = "backoff" /\ pc["ingest"] /= "backoff") =>
            pc["ingest"] = "blocked" /\ ~broker_up
       /\ (pc'["ingest"] = "reconnect" /\ pc["ingest"] /= "reconnect") =>
            pc["ingest"] = "backoff"
       /\ StepFrom("save") =>
            /\ pc'["ingest"] = "advance"
            /\ redis_client' = redis_client
            /\ connects' = connects
       /\ (StepFrom("blocked") /\ pc'["ingest"] = "pause") \/ StepFrom("pause") =>
            /\ pc'["ingest"] \in {"pause", "read"}
            /\ redis_client' = redis_client
            /\ last_id' = last_id
            /\ processed_count' = processed_count
            /\ connects' = connects]_vars

\* order.save() raised while the broker was out of reach, and the loop is at
\* `last_id = entry_id` with its first handle.
C19_Witness ==
    /\ pc["ingest"] = "advance"
    /\ Len(T) >= 1 /\ T[Len(T)].op = "save_error"
    /\ ~broker_up
    /\ redis_client["ingest"] = 1
    /\ connects["ingest"] = 1

====
